---- MODULE Spec2Model ----
(***************************************************************************)
(* Cart / discount / checkout core of Edrisi-Project1.py.                  *)
(*                                                                         *)
(* Product objects are shared by every cart: a CartItem holds a reference  *)
(* to the live Product, so stock is one function of the product id.        *)
(* CartItem objects live on a heap (cartItems) and are named by the cart   *)
(* that created them, their product and a serial number; a cart is the     *)
(* insertion-ordered dict of its lines, an order keeps the list of the     *)
(* very CartItem objects the cart held.                                    *)
(*                                                                         *)
(* Money: prices and subtotals are integers; a discount is kept in         *)
(* hundredths of a unit (Scale), so total * (percent / 100) is the integer *)
(* total * percent.  On the inputs used here (subtotals that are multiples *)
(* of 1000, percents -10,0,10,25,50,100,150) the Python float product,     *)
(* times 100, is exactly that integer.                                     *)
(***************************************************************************)
EXTENDS Integers, Sequences, FiniteSets, TLC

\* ---------------------------------------------------------------- bounds
SeedStock == 1          \* stock the scarcer product is seeded with
MaxQty == 2             \* largest quantity typed at the prompt
MaxCalls == 4           \* commands the menu loop reads in one run
MaxSubtotalK == 6       \* subtotals 0, 1000, .., 1000 * MaxSubtotalK
MaxAmountK == 3         \* fixed amounts -2500, 0, 2500, .., 2500 * MaxAmountK

\* ------------------------------------------------------------- constants
\* total * (percent / 100): discounts are kept in hundredths
Scale == 100

Users == {"u1", "u2"}
Products == {1, 2}
Quantities == (0 - 1)..MaxQty
OrderIds == {"a", "b"}

\* the catalog main() seeds: Tablet (more in stock) and Computer
price == [p \in Products |-> IF p = 1 THEN 2000 ELSE 4000]
seed == [p \in Products |-> IF p = 1 THEN SeedStock + 1 ELSE SeedStock]

OK == "ok"
NotEnoughStock == "Not enough stock"
ItemNotInCart == "Item not in cart"
CartIsEmpty == "Cart is empty"
\* an optional value: None is the empty sequence, Some(v) holds v
None == <<>>
Some(v) == <<v>>

VARIABLES stock, cartItems, cart, orders, last, budget, dcall, dret
\* stock      Product.stock, by product id
\* cartItems  heap of CartItem objects: object name -> [product, quantity]
\* cart       User.cart.items: per user, the CartItem objects in dict order
\* orders     User.orders: per user, the list of Order records
\* last       the most recent call: operation, arguments, exception raised, value returned
\* budget     commands the menu loop will still read
\* dcall      the arguments of a call examined on its own: the strategy object and the
\*            total passed to apply, or the product and the two quantities added in turn
\* dret       the value that apply call returned (None before it returns)

vars == <<stock, cartItems, cart, orders, last, budget, dcall, dret>>

\* ------------------------------------------------------------- Product
\* Product.reduce_stock on a product whose stock is s
reduce_stock_unguarded(s, amount) ==
    [err |-> OK, stock |-> s - amount]

reduce_stock(s, amount) ==
    IF amount > s
    THEN [err |-> NotEnoughStock, stock |-> s]
    ELSE [err |-> OK, stock |-> s - amount]

\* ------------------------------------------------------------- ShoppingCart
\* self.items[product_id] if present: the CartItem object, else NoLine
NoLine == <<>>

\* CartItem(product, quantity): the new object of cart self is named by the cart,
\* the product and the number of live CartItem objects that cart made for the product
NewItem(self, heap, pid) ==
    <<self, pid, Cardinality({n \in DOMAIN heap : n[1] = self /\ n[2] = pid})>>

Lookup(lines, heap, pid) ==
    IF \E i \in 1..Len(lines) : heap[lines[i]].product = pid
    THEN lines[CHOOSE i \in 1..Len(lines) : heap[lines[i]].product = pid]
    ELSE NoLine

\* quantity of the line for pid, 0 when there is none
LineQty(lines, heap, pid) ==
    IF Lookup(lines, heap, pid) = NoLine THEN 0
    ELSE heap[Lookup(lines, heap, pid)].quantity

\* add_item without the check of the summed quantity
add_item_no_sum_check(self, lines, heap, st, pid, quantity) ==
    IF quantity > st[pid]
    THEN [err |-> NotEnoughStock, lines |-> lines, heap |-> heap]
    ELSE IF Lookup(lines, heap, pid) # NoLine
    THEN LET it == Lookup(lines, heap, pid)
             new_quantity == heap[it].quantity + quantity
         IN  [err |-> OK, lines |-> lines,
              heap |-> [heap EXCEPT ![it].quantity = new_quantity]]
    ELSE [err |-> OK,
          lines |-> Append(lines, NewItem(self, heap, pid)),
          heap |-> heap @@ (NewItem(self, heap, pid) :> [product |-> pid, quantity |-> quantity])]

\* add_item replacing the quantity of an existing line instead of adding to it
add_item_overwrite(self, lines, heap, st, pid, quantity) ==
    IF quantity > st[pid]
    THEN [err |-> NotEnoughStock, lines |-> lines, heap |-> heap]
    ELSE IF Lookup(lines, heap, pid) # NoLine
    THEN LET it == Lookup(lines, heap, pid)
         IN  IF quantity > st[pid]
             THEN [err |-> NotEnoughStock, lines |-> lines, heap |-> heap]
             ELSE [err |-> OK, lines |-> lines,
                   heap |-> [heap EXCEPT ![it].quantity = quantity]]
    ELSE [err |-> OK,
          lines |-> Append(lines, NewItem(self, heap, pid)),
          heap |-> heap @@ (NewItem(self, heap, pid) :> [product |-> pid, quantity |-> quantity])]

\* ShoppingCart.add_item: the exception raised, the dict and the heap afterwards
add_item(self, lines, heap, st, pid, quantity) ==
    IF quantity > st[pid]
    THEN [err |-> NotEnoughStock, lines |-> lines, heap |-> heap]
    ELSE IF Lookup(lines, heap, pid) # NoLine
    THEN LET it == Lookup(lines, heap, pid)
             new_quantity == heap[it].quantity + quantity
         IN  IF new_quantity > st[pid]
             THEN [err |-> NotEnoughStock, lines |-> lines, heap |-> heap]
             ELSE [err |-> OK, lines |-> lines,
                   heap |-> [heap EXCEPT ![it].quantity = new_quantity]]
    ELSE [err |-> OK,
          lines |-> Append(lines, NewItem(self, heap, pid)),
          heap |-> heap @@ (NewItem(self, heap, pid) :> [product |-> pid, quantity |-> quantity])]

\* update_quantity without the stock test
update_quantity_no_stock_check(lines, heap, st, pid, quantity) ==
    IF Lookup(lines, heap, pid) = NoLine
    THEN [err |-> ItemNotInCart, lines |-> lines, heap |-> heap]
    ELSE LET it == Lookup(lines, heap, pid)
         IN  [err |-> OK, lines |-> lines,
              heap |-> [heap EXCEPT ![it].quantity = quantity]]

\* update_quantity adding to the line instead of setting it
update_quantity_increment(lines, heap, st, pid, quantity) ==
    IF Lookup(lines, heap, pid) = NoLine
    THEN [err |-> ItemNotInCart, lines |-> lines, heap |-> heap]
    ELSE LET it == Lookup(lines, heap, pid)
         IN  IF quantity > st[heap[it].product]
             THEN [err |-> NotEnoughStock, lines |-> lines, heap |-> heap]
             ELSE [err |-> OK, lines |-> lines,
                   heap |-> [heap EXCEPT ![it].quantity = @ + quantity]]

\* ShoppingCart.update_quantity
update_quantity(lines, heap, st, pid, quantity) ==
    IF Lookup(lines, heap, pid) = NoLine
    THEN [err |-> ItemNotInCart, lines |-> lines, heap |-> heap]
    ELSE LET it == Lookup(lines, heap, pid)
         IN  IF quantity > st[heap[it].product]
             THEN [err |-> NotEnoughStock, lines |-> lines, heap |-> heap]
             ELSE [err |-> OK, lines |-> lines,
                   heap |-> [heap EXCEPT ![it].quantity = quantity]]

\* remove_item dropping the newest line whatever the id: dict.popitem()
remove_item_popitem(lines, heap, pid) ==
    IF lines = <<>> THEN lines ELSE SubSeq(lines, 1, Len(lines) - 1)

\* ShoppingCart.remove_item: dict.pop(product_id, None)
remove_item(lines, heap, pid) ==
    SelectSeq(lines, LAMBDA it : heap[it].product # pid)

\* line_total forgetting the quantity
line_total_unit_price(heap, it) == price[heap[it].product]

\* CartItem.line_total
line_total(heap, it) == price[heap[it].product] * heap[it].quantity

\* ShoppingCart.calculate_total
RECURSIVE calculate_total(_, _)
calculate_total(lines, heap) ==
    IF lines = <<>> THEN 0
    ELSE line_total(heap, Head(lines)) + calculate_total(Tail(lines), heap)

\* ShoppingCart.is_empty
is_empty(lines) == Len(lines) = 0

\* ------------------------------------------------------------- discounts
NoDiscount == [kind |-> "NoDiscount", percent |-> 0, amount |-> 0, threshold |-> 0]
PercentageDiscount(percent) ==
    [kind |-> "PercentageDiscount", percent |-> percent, amount |-> 0, threshold |-> 0]
FixedAmountDiscount(amount) ==
    [kind |-> "FixedAmountDiscount", percent |-> 0, amount |-> amount, threshold |-> 0]
ThresholdPercentageDiscount(threshold, percent) ==
    [kind |-> "ThresholdPercentageDiscount", percent |-> percent, amount |-> 0,
     threshold |-> threshold]

Min(a, b) == IF a <= b THEN a ELSE b

\* the four apply methods, in hundredths
NoDiscount_apply(d, total) == 0

PercentageDiscount_apply(d, total) ==
    total * d.percent

\* the fixed amount returned without min(total, amount)
FixedAmountDiscount_apply_unclamped(d, total) == d.amount * Scale

FixedAmountDiscount_apply(d, total) ==
    Min(total, d.amount) * Scale

\* the threshold compared with > instead of >=
ThresholdPercentageDiscount_apply_strict(d, total) ==
    IF total > d.threshold THEN total * d.percent ELSE 0

ThresholdPercentageDiscount_apply(d, total) ==
    IF total >= d.threshold THEN total * d.percent ELSE 0

\* discount_strategy.apply(total): dynamic dispatch on the strategy's class
apply(d, total) ==
    CASE d.kind = "NoDiscount" -> NoDiscount_apply(d, total)
      [] d.kind = "PercentageDiscount" -> PercentageDiscount_apply(d, total)
      [] d.kind = "FixedAmountDiscount" -> FixedAmountDiscount_apply(d, total)
      [] d.kind = "ThresholdPercentageDiscount" -> ThresholdPercentageDiscount_apply(d, total)

\* ------------------------------------------------------------- User.checkout
\* the loop leaving after its first line
reduce_loop_first_only(lines, heap, st) ==
    IF lines = <<>> THEN [err |-> OK, stock |-> st]
    ELSE LET it == heap[Head(lines)]
             r == reduce_stock(st[it.product], it.quantity)
         IN  IF r.err # OK
             THEN [err |-> r.err, stock |-> st]
             ELSE [err |-> OK, stock |-> [st EXCEPT ![it.product] = r.stock]]

\* the loop "for item in self.cart.items.values(): item.product.reduce_stock(item.quantity)":
\* stops at the first line that raises, keeping the deductions already made
RECURSIVE reduce_loop(_, _, _)
reduce_loop(lines, heap, st) ==
    IF lines = <<>> THEN [err |-> OK, stock |-> st]
    ELSE LET it == heap[Head(lines)]
             r == reduce_stock(st[it.product], it.quantity)
         IN  IF r.err # OK
             THEN [err |-> r.err, stock |-> st]
             ELSE reduce_loop(Tail(lines), heap, [st EXCEPT ![it.product] = r.stock])

\* Order.__init__ with the id uuid4 drew
Order(id, items, total_before, discount_amount, total_after) ==
    [id |-> id, items |-> items, total_before |-> total_before,
     discount_amount |-> discount_amount, total_after |-> total_after]

\* checkout without self.cart.clear()
checkout_no_clear(lines, heap, st, ords, d, id) ==
    IF is_empty(lines)
    THEN [err |-> CartIsEmpty, stock |-> st, lines |-> lines, orders |-> ords, ret |-> None]
    ELSE LET total_before == calculate_total(lines, heap)
             discount_amount == apply(d, total_before)
             total_after == total_before * Scale - discount_amount
             r == reduce_loop(lines, heap, st)
             order == Order(id, lines, total_before, discount_amount, total_after)
         IN  IF r.err # OK
             THEN [err |-> r.err, stock |-> r.stock, lines |-> lines, orders |-> ords,
                   ret |-> None]
             ELSE [err |-> OK, stock |-> r.stock, lines |-> lines,
                   orders |-> Append(ords, order), ret |-> Some(order)]

\* checkout without the is_empty test
checkout_no_empty_check(lines, heap, st, ords, d, id) ==
    LET total_before == calculate_total(lines, heap)
        discount_amount == apply(d, total_before)
        total_after == total_before * Scale - discount_amount
        r == reduce_loop(lines, heap, st)
        order == Order(id, lines, total_before, discount_amount, total_after)
    IN  IF r.err # OK
        THEN [err |-> r.err, stock |-> r.stock, lines |-> lines, orders |-> ords,
              ret |-> None]
        ELSE [err |-> OK, stock |-> r.stock, lines |-> <<>>,
              orders |-> Append(ords, order), ret |-> Some(order)]

\* User.checkout: exception, stock, cart dict, order list and return value afterwards
checkout(lines, heap, st, ords, d, id) ==
    IF is_empty(lines)
    THEN [err |-> CartIsEmpty, stock |-> st, lines |-> lines, orders |-> ords, ret |-> None]
    ELSE LET total_before == calculate_total(lines, heap)
             discount_amount == apply(d, total_before)
             total_after == total_before * Scale - discount_amount
             r == reduce_loop(lines, heap, st)
             order == Order(id, lines, total_before, discount_amount, total_after)
         IN  IF r.err # OK
             THEN [err |-> r.err, stock |-> r.stock, lines |-> lines, orders |-> ords,
                   ret |-> None]
             ELSE [err |-> OK, stock |-> r.stock, lines |-> <<>>,
                   orders |-> Append(ords, order), ret |-> Some(order)]

\* ------------------------------------------------------------- inputs
\* strategies built by menu option 6
CheckoutPolicies ==
    {NoDiscount, PercentageDiscount(150), FixedAmountDiscount(1000),
     ThresholdPercentageDiscount(5000, 10)}

Subtotals == {1000 * k : k \in 0..MaxSubtotalK}
Percents == {0 - 10, 0, 10, 25, 50, 100, 150}
Amounts == {2500 * k : k \in (0 - 1)..MaxAmountK}
Thresholds == {0, 3000, 5000, 7000}

Policies ==
    {NoDiscount}
    \cup {PercentageDiscount(p) : p \in Percents}
    \cup {FixedAmountDiscount(a) : a \in Amounts}
    \cup {ThresholdPercentageDiscount(t, p) : t \in Thresholds, p \in Percents}

NoCall ==
    [op |-> "init", user |-> "", pid |-> 0, quantity |-> 0, err |-> OK, ret |-> None]

Call(op, u, pid, quantity, err, ret) ==
    [op |-> op, user |-> u, pid |-> pid, quantity |-> quantity, err |-> err, ret |-> ret]

\* a CartItem that no dict and no order refers to any more is freed
NoItems == [n \in {} |-> [product |-> 0, quantity |-> 0]]

Referenced(carts, ords) ==
    UNION {{carts[u][i] : i \in 1..Len(carts[u])} : u \in Users}
    \cup UNION {UNION {{ords[u][k].items[i] : i \in 1..Len(ords[u][k].items)} :
                       k \in 1..Len(ords[u])} : u \in Users}

Collect(heap, carts, ords) ==
    [n \in DOMAIN heap \cap Referenced(carts, ords) |-> heap[n]]

\* ------------------------------------------------------------- the shop
Init ==
    /\ stock = seed
    /\ cartItems = NoItems
    /\ cart = [u \in Users |-> <<>>]
    /\ orders = [u \in Users |-> <<>>]
    /\ last = NoCall
    /\ budget = MaxCalls
    /\ dcall = None
    /\ dret = None

\* one more command read by the loop of main()
Read ==
    /\ budget > 0
    /\ budget' = budget - 1

\* add to cart taking the units out of the stock at once
AddItem_reserving(u, pid, quantity) ==
    LET r == add_item(u, cart[u], cartItems, stock, pid, quantity)
    IN  /\ Read
        /\ cartItems' = r.heap
        /\ cart' = [cart EXCEPT ![u] = r.lines]
        /\ stock' = IF r.err = OK THEN [stock EXCEPT ![pid] = @ - quantity] ELSE stock
        /\ last' = Call("add_item", u, pid, quantity, r.err, None)
        /\ UNCHANGED <<orders, dcall, dret>>

\* menu option 3: user.cart.add_item(product, quantity)
AddItem(u, pid, quantity) ==
    LET r == add_item(u, cart[u], cartItems, stock, pid, quantity)
    IN  /\ Read
        /\ cartItems' = r.heap
        /\ cart' = [cart EXCEPT ![u] = r.lines]
        /\ last' = Call("add_item", u, pid, quantity, r.err, None)
        /\ UNCHANGED <<stock, orders, dcall, dret>>

\* menu option 5, u: user.cart.update_quantity(product_id, qty)
UpdateQuantity(u, pid, quantity) ==
    LET r == update_quantity(cart[u], cartItems, stock, pid, quantity)
    IN  /\ Read
        /\ cartItems' = r.heap
        /\ cart' = [cart EXCEPT ![u] = r.lines]
        /\ last' = Call("update_quantity", u, pid, quantity, r.err, None)
        /\ UNCHANGED <<stock, orders, dcall, dret>>

\* menu option 5, d: user.cart.remove_item(product_id)
RemoveItem(u, pid) ==
    /\ Read
    /\ cart' = [cart EXCEPT ![u] = remove_item(@, cartItems, pid)]
    /\ cartItems' = Collect(cartItems, cart', orders)
    /\ last' = Call("remove_item", u, pid, 0, OK, None)
    /\ UNCHANGED <<stock, orders, dcall, dret>>

\* user.cart.clear()
Clear(u) ==
    /\ Read
    /\ cart' = [cart EXCEPT ![u] = <<>>]
    /\ cartItems' = Collect(cartItems, cart', orders)
    /\ last' = Call("clear", u, 0, 0, OK, None)
    /\ UNCHANGED <<stock, orders, dcall, dret>>

\* menu option 6: user.checkout(disc)
Checkout(u, d, id) ==
    LET r == checkout(cart[u], cartItems, stock, orders[u], d, id)
    IN  /\ Read
        /\ stock' = r.stock
        /\ cart' = [cart EXCEPT ![u] = r.lines]
        /\ orders' = [orders EXCEPT ![u] = r.orders]
        /\ last' = Call("checkout", u, 0, 0, r.err, r.ret)
        /\ UNCHANGED <<cartItems, dcall, dret>>

Next ==
    \/ \E u \in Users, pid \in Products, quantity \in Quantities : AddItem(u, pid, quantity)
    \/ \E u \in Users, pid \in Products, quantity \in Quantities : UpdateQuantity(u, pid, quantity)
    \/ \E u \in Users, pid \in Products : RemoveItem(u, pid)
    \/ \E u \in Users : Clear(u)
    \/ \E u \in Users, d \in CheckoutPolicies, id \in OrderIds : Checkout(u, d, id)

Spec == Init /\ [][Next]_vars

\* ------------------------------------------------------------- two carts, one catalog
\* Two users fill their carts with single units of the shared products and check
\* out; the loop reads one command more than in Spec.
InitTwoCarts ==
    /\ stock = seed
    /\ cartItems = NoItems
    /\ cart = [u \in Users |-> <<>>]
    /\ orders = [u \in Users |-> <<>>]
    /\ last = NoCall
    /\ budget = MaxCalls + 1
    /\ dcall = None
    /\ dret = None

NextTwoCarts ==
    \/ \E u \in Users, pid \in Products : AddItem(u, pid, 1)
    \/ \E u \in Users, id \in OrderIds : Checkout(u, NoDiscount, id)

SpecTwoCarts == InitTwoCarts /\ [][NextTwoCarts]_vars

\* ------------------------------------------------------------- one cart
\* main() as written: one user, one cart; the loop reads one command more than in
\* Spec.
TheUser == "u1"

InitOneCart ==
    /\ stock = seed
    /\ cartItems = NoItems
    /\ cart = [u \in Users |-> <<>>]
    /\ orders = [u \in Users |-> <<>>]
    /\ last = NoCall
    /\ budget = MaxCalls + 1
    /\ dcall = None
    /\ dret = None

NextOneCart ==
    \/ \E pid \in Products, quantity \in Quantities : AddItem(TheUser, pid, quantity)
    \/ \E pid \in Products, quantity \in Quantities : UpdateQuantity(TheUser, pid, quantity)
    \/ \E pid \in Products : RemoveItem(TheUser, pid)
    \/ Clear(TheUser)
    \/ \E d \in CheckoutPolicies, id \in OrderIds : Checkout(TheUser, d, id)

SpecOneCart == InitOneCart /\ [][NextOneCart]_vars

\* ------------------------------------------------------------- apply, on its own
InitDiscount ==
    /\ stock = seed
    /\ cartItems = NoItems
    /\ cart = [u \in Users |-> <<>>]
    /\ orders = [u \in Users |-> <<>>]
    /\ last = NoCall
    /\ budget = MaxCalls
    /\ dcall \in [strategy : Policies, total : Subtotals]
    /\ dret = None

\* discount_strategy.apply(total_before)
Apply ==
    /\ dret = None
    /\ dret' = Some(apply(dcall.strategy, dcall.total))
    /\ UNCHANGED <<stock, cartItems, cart, orders, last, budget, dcall>>

NextDiscount == Apply

SpecDiscount == InitDiscount /\ [][NextDiscount]_vars

\* ------------------------------------------------------------- add_item, twice or once
\* Two carts over one catalog start with the same content (empty, or one line made
\* by add_item); the first adds a and then b of a product, the second adds a + b.
\* Stock levels are those a product can have after earlier sales and returns.
InitAddTwice ==
    /\ stock \in [Products -> 0..(SeedStock + 2)]
    /\ \E sp \in Products, e \in Quantities :
          LET r1 == add_item("u1", <<>>, NoItems, stock, sp, e)
              r2 == add_item("u2", <<>>, r1.heap, stock, sp, e)
          IN  /\ cartItems = r2.heap
              /\ cart = [u \in Users |-> IF u = "u1" THEN r1.lines ELSE r2.lines]
              /\ \E pid \in Products, a \in Quantities, b \in Quantities :
                    dcall = [pid |-> pid, a |-> a, b |-> b,
                             existing |-> LineQty(r1.lines, r1.heap, pid)]
    /\ orders = [u \in Users |-> <<>>]
    /\ last = NoCall
    /\ budget = 3
    /\ dret = None

\* cart.add_item(product, a)
AddFirst ==
    /\ budget = 3
    /\ AddItem("u1", dcall.pid, dcall.a)

\* cart.add_item(product, b), after the first
AddSecond ==
    /\ budget = 2
    /\ AddItem("u1", dcall.pid, dcall.b)

\* other_cart.add_item(product, a + b)
AddSummed ==
    /\ budget = 1
    /\ AddItem("u2", dcall.pid, dcall.a + dcall.b)

NextAddTwice ==
    \/ AddFirst
    \/ AddSecond
    \/ AddSummed

SpecAddTwice == InitAddTwice /\ [][NextAddTwice]_vars

\* ============================================================= properties
\* the (product, quantity) pairs of a list of CartItem objects
Lines(items, heap) == [i \in 1..Len(items) |-> heap[items[i]]]

AllOrders == UNION {{orders[u][k] : k \in 1..Len(orders[u])} : u \in Users}

\* the lines of all orders of all histories: user, position of the order, position
\* of the line
OrderLines ==
    {t \in Users \X (1..MaxCalls + 1) \X (1..Cardinality(Products)) :
        /\ t[2] <= Len(orders[t[1]])
        /\ t[3] <= Len(orders[t[1]][t[2]].items)}

\* units of product p recorded in the order lines ts
RECURSIVE UnitsOrdered(_, _)
UnitsOrdered(ts, p) ==
    IF ts = {} THEN 0
    ELSE LET t == CHOOSE x \in ts : TRUE
             it == cartItems[orders[t[1]][t[2]].items[t[3]]]
         IN  (IF it.product = p THEN it.quantity ELSE 0) + UnitsOrdered(ts \ {t}, p)

\* sum of product price times quantity over the lines items[i], i in idx
RECURSIVE SumPriceTimesQuantity(_, _, _)
SumPriceTimesQuantity(idx, items, heap) ==
    IF idx = {} THEN 0
    ELSE LET i == CHOOSE j \in idx : TRUE
         IN  price[heap[items[i]].product] * heap[items[i]].quantity
             + SumPriceTimesQuantity(idx \ {i}, items, heap)

\* C1: whenever checkout fails for lack of stock, no product's stock has changed,
\* no order has been appended and the cart's lines are unchanged.
C1_CheckoutAllOrNothing ==
    [][(last'.op = "checkout" /\ last'.err = NotEnoughStock)
        => /\ stock' = stock
           /\ orders' = orders
           /\ Lines(cart'[last'.user], cartItems') = Lines(cart[last'.user], cartItems)]_vars

\* C2: in every reachable state every product's stock is >= 0.
C2_StockNeverNegative == \A p \in Products : stock[p] >= 0

\* a checkout was refused for lack of stock while a product is sold out
C2_Witness ==
    /\ last.op = "checkout"
    /\ last.err = NotEnoughStock
    /\ \E p \in Products : stock[p] = 0

\* C3: right after a successful add_item or update_quantity, the quantity of the
\* line created or changed is <= the current stock of its product.
C3_LineWithinStockAfterMutation ==
    (last.op \in {"add_item", "update_quantity"} /\ last.err = OK)
    => /\ Lookup(cart[last.user], cartItems, last.pid) # NoLine
       /\ LineQty(cart[last.user], cartItems, last.pid) <= stock[last.pid]

\* add_item has just raised an existing line to exactly the stock of its product
C3_Witness ==
    /\ last.op = "add_item"
    /\ last.err = OK
    /\ last.quantity = 1
    /\ LineQty(cart[last.user], cartItems, last.pid) = 2
    /\ stock[last.pid] = 2

\* C4: a successful checkout decreases the stock of each product with a line in
\* the cart by exactly that line's quantity and leaves every other stock unchanged.
C4_CheckoutDeductsExactly ==
    [][(last'.op = "checkout" /\ last'.err = OK)
        => \A p \in Products :
              stock'[p] = stock[p] - LineQty(cart[last'.user], cartItems, p)]_vars

\* a checkout of a two-line cart succeeded: both products are reduced by one unit
C4_Witness ==
    /\ last.op = "checkout"
    /\ last.err = OK
    /\ Len(last.ret[1].items) = 2
    /\ \A i \in 1..2 : cartItems[last.ret[1].items[i]].quantity = 1
    /\ \A p \in Products : stock[p] = seed[p] - 1

\* C5: a successful checkout appends exactly one order to the user's history
\* (earlier entries keep their positions), leaves the cart empty and returns the
\* appended order, whose lines are the product/quantity pairs the cart held.
C5_CheckoutAppendsOneOrder ==
    [][(last'.op = "checkout" /\ last'.err = OK)
        => LET u == last'.user
           IN  /\ Len(cart[u]) > 0
               /\ Len(orders'[u]) = Len(orders[u]) + 1
               /\ SubSeq(orders'[u], 1, Len(orders[u])) = orders[u]
               /\ \A v \in Users \ {u} : orders'[v] = orders[v]
               /\ cart'[u] = <<>>
               /\ last'.ret = Some(orders'[u][Len(orders'[u])])
               /\ Lines(orders'[u][Len(orders'[u])].items, cartItems')
                    = Lines(cart[u], cartItems)]_vars

\* a second successful checkout of the same user: the history holds two orders
C5_Witness ==
    /\ last.op = "checkout"
    /\ last.err = OK
    /\ Len(orders[last.user]) = 2
    /\ last.ret = Some(orders[last.user][2])
    /\ cart[last.user] = <<>>

\* C6: checkout on an empty cart fails with the empty-cart error and changes
\* neither the order history nor the cart nor any stock.
C6_EmptyCartCheckoutFails ==
    [][(last'.op = "checkout" /\ cart[last'.user] = <<>>)
        => /\ last'.err = CartIsEmpty
           /\ last'.ret = None
           /\ stock' = stock
           /\ orders' = orders
           /\ cart' = cart]_vars

\* checkout was refused on an empty cart while the other cart holds a line
C6_Witness ==
    /\ last.op = "checkout"
    /\ last.err = CartIsEmpty
    /\ cart[last.user] = <<>>
    /\ \E u \in Users : cart[u] # <<>>

\* C7: every order in any history has total_after = total_before - discount_amount,
\* discount_amount <= total_before and total_after >= 0.
C7_OrderTotalsConsistent ==
    \A o \in AllOrders :
        /\ o.total_after = o.total_before * Scale - o.discount_amount
        /\ o.discount_amount <= o.total_before * Scale
        /\ o.total_after >= 0

C9_ThresholdDiscountValue ==
    LET d == dcall.strategy
    IN  (dret # None /\ d.kind = "ThresholdPercentageDiscount")
        => /\ dcall.total >= d.threshold => dret[1] * 100 = dcall.total * d.percent * Scale
           /\ dcall.total < d.threshold => dret[1] = 0
           /\ (d = ThresholdPercentageDiscount(5000, 10) /\ dcall.total = 4000)
                => dret[1] = 0
           /\ (d = ThresholdPercentageDiscount(5000, 10) /\ dcall.total = 6000)
                => dret[1] = 600 * Scale

\* the subtotal equals the threshold and the discount is granted
C9_Witness ==
    /\ dret = Some(500 * Scale)
    /\ dcall.strategy = ThresholdPercentageDiscount(5000, 10)
    /\ dcall.total = 5000

\* C10: add_item fails with the not-enough-stock error exactly when the existing
\* line quantity (0 if none) plus quantity exceeds the product's stock; a failed
\* add_item leaves the cart unchanged, a successful one creates the line with that
\* quantity or increments the existing line by it.
C10_AddItemFailsExactlyOverStock ==
    [][last'.op = "add_item"
        => LET u == last'.user
               pid == last'.pid
               existing == LineQty(cart[u], cartItems, pid)
           IN  /\ last'.err = NotEnoughStock <=> existing + last'.quantity > stock[pid]
               /\ last'.err # OK
                    => Lines(cart'[u], cartItems') = Lines(cart[u], cartItems)
               /\ last'.err = OK
                    => /\ Lookup(cart'[u], cartItems', pid) # NoLine
                       /\ LineQty(cart'[u], cartItems', pid)
                            = existing + last'.quantity]_vars

\* C11: update_quantity fails with the item-not-in-cart error when the cart has no
\* line for the product and with the not-enough-stock error when the line exists and
\* quantity exceeds the product's stock; a failed call leaves the cart unchanged; a
\* successful one sets the line to exactly quantity and changes no other line.
C11_UpdateQuantityContract ==
    [][last'.op = "update_quantity"
        => LET u == last'.user
               pid == last'.pid
               had == Lookup(cart[u], cartItems, pid) # NoLine
           IN  /\ ~had => last'.err = ItemNotInCart
               /\ (had /\ last'.quantity > stock[pid]) => last'.err = NotEnoughStock
               /\ last'.err # OK => (cart' = cart /\ cartItems' = cartItems)
               /\ last'.err = OK
                    => /\ had
                       /\ cart' = cart
                       /\ LineQty(cart'[u], cartItems', pid) = last'.quantity
                       /\ \A n \in DOMAIN cartItems :
                              n # Lookup(cart[u], cartItems, pid)
                              => cartItems'[n] = cartItems[n]]_vars

\* update_quantity has just set one line of a two-line cart to 1, below its stock
C11_Witness ==
    /\ last.op = "update_quantity"
    /\ last.err = OK
    /\ last.quantity = 1
    /\ stock[last.pid] = 2
    /\ Len(cart[last.user]) = 2
    /\ LineQty(cart[last.user], cartItems, last.pid) = 1

\* C12: in every reachable state every cart line has a quantity > 0, and an add_item
\* with a quantity <= 0 has been rejected with an error.
C12_LineQuantitiesPositive ==
    /\ \A u \in Users : \A i \in 1..Len(cart[u]) : cartItems[cart[u][i]].quantity > 0
    /\ (last.op = "add_item" /\ last.quantity <= 0) => last.err # OK

\* C13 (as stated): for positive a and b with a + b <= the product's stock,
\* add_item(product, a) followed by add_item(product, b) leaves the cart in the same
\* state as one add_item(product, a + b) from the same starting cart.
C13_AddTwiceEqualsAddSum_AsStated ==
    (/\ budget = 0
     /\ dcall.a > 0
     /\ dcall.b > 0
     /\ dcall.a + dcall.b <= stock[dcall.pid])
    => Lines(cart["u1"], cartItems) = Lines(cart["u2"], cartItems)

\* C13 (amended): as stated, provided the quantity the starting cart already holds
\* of the product (0 if none) plus a + b is <= the product's stock as well.
C13_AddTwiceEqualsAddSum ==
    (/\ budget = 0
     /\ dcall.a > 0
     /\ dcall.b > 0
     /\ dcall.a + dcall.b <= stock[dcall.pid]
     /\ dcall.existing + dcall.a + dcall.b <= stock[dcall.pid])
    => Lines(cart["u1"], cartItems) = Lines(cart["u2"], cartItems)

\* 1 and then 2 units were added to a cart that held 0 of the product beside a line
\* of the other product, 3 at once to its twin: both hold 3, the whole stock
C13_Witness ==
    /\ budget = 0
    /\ dcall.a = 1
    /\ dcall.b = 2
    /\ dcall.existing = 0
    /\ stock[dcall.pid] = 3
    /\ last.err = OK
    /\ Len(cart["u1"]) = 2
    /\ LineQty(cart["u1"], cartItems, dcall.pid) = 3
    /\ LineQty(cart["u2"], cartItems, dcall.pid) = 3

\* C14: remove_item raises no error; on a product id without a line it leaves the
\* cart unchanged; removing the same id again changes nothing more; no other line
\* and no other cart is changed.
C14_RemoveItemIdempotent ==
    [][last'.op = "remove_item"
        => LET u == last'.user
               pid == last'.pid
           IN  /\ last'.err = OK
               /\ Lookup(cart[u], cartItems, pid) = NoLine
                    => (cart' = cart /\ cartItems' = cartItems)
               /\ remove_item(cart'[u], cartItems', pid) = cart'[u]
               /\ \A p \in Products \ {pid} :
                      /\ Lookup(cart'[u], cartItems', p) = Lookup(cart[u], cartItems, p)
                      /\ LineQty(cart'[u], cartItems', p) = LineQty(cart[u], cartItems, p)
               /\ \A v \in Users \ {u} :
                      Lines(cart'[v], cartItems') = Lines(cart[v], cartItems)]_vars

\* the second command removed an id from a cart that still holds its one line:
\* the first command added that line, so the id removed had no line
C14_Witness ==
    /\ last.op = "remove_item"
    /\ budget = MaxCalls - 2
    /\ Len(cart[last.user]) = 1
    /\ Lookup(cart[last.user], cartItems, last.pid) = NoLine

\* C15: no step alters an order already in a history: its id, its totals and the
\* product and quantity of each of its lines stay what they were.
C15_OrdersNeverAltered ==
    [][\A u \in Users : \A k \in 1..Len(orders[u]) :
          /\ Len(orders'[u]) >= k
          /\ orders'[u][k] = orders[u][k]
          /\ Lines(orders'[u][k].items, cartItems')
               = Lines(orders[u][k].items, cartItems)]_vars

\* after an order for one unit of a product, update_quantity set the same user's
\* new cart line for that product to another quantity; the order still says 1
C15_Witness ==
    /\ last.op = "update_quantity"
    /\ last.err = OK
    /\ last.quantity # 1
    /\ Len(orders[last.user]) = 1
    /\ LineQty(orders[last.user][1].items, cartItems, last.pid) = 1
    /\ Lookup(cart[last.user], cartItems, last.pid) # NoLine
    /\ LineQty(cart[last.user], cartItems, last.pid) = last.quantity

\* C16: add_item, update_quantity, remove_item and clear, whether they succeed or
\* fail, leave every product's stock unchanged; stock changes only in checkout.
C16_CartOpsLeaveStock ==
    [][/\ last'.op \in {"add_item", "update_quantity", "remove_item", "clear"}
            => stock' = stock
       /\ stock' # stock => last'.op = "checkout"]_vars

\* add_item has just put the whole stock of a product into a cart: the stock is
\* still what the catalog was seeded with
C16_Witness ==
    /\ last.op = "add_item"
    /\ last.err = OK
    /\ last.quantity = 2
    /\ LineQty(cart[last.user], cartItems, last.pid) = 2
    /\ stock[last.pid] = 2
    /\ stock = seed

\* C17: no two orders, in the same history or in different users' histories,
\* have the same id.
C17_OrderIdsUnique ==
    \A u \in Users, v \in Users :
        \A k \in 1..Len(orders[u]), j \in 1..Len(orders[v]) :
            (u # v \/ k # j) => orders[u][k].id # orders[v][j].id

\* C18: for every cart calculate_total() is the sum over its lines of product
\* price times quantity, 0 for an empty cart; the total_before of every order is
\* that sum over the lines the order records.
C18_TotalIsSumOfLines ==
    /\ \A u \in Users :
          /\ calculate_total(cart[u], cartItems)
               = SumPriceTimesQuantity(1..Len(cart[u]), cart[u], cartItems)
          /\ cart[u] = <<>> => calculate_total(cart[u], cartItems) = 0
    /\ \A o \in AllOrders :
          o.total_before = SumPriceTimesQuantity(1..Len(o.items), o.items, cartItems)

\* an order for two units of product 1 and one of product 2 records 8000, while
\* the other cart is empty
C18_Witness ==
    /\ last.op = "checkout"
    /\ last.err = OK
    /\ Len(last.ret[1].items) = 2
    /\ LineQty(last.ret[1].items, cartItems, 1) = 2
    /\ LineQty(last.ret[1].items, cartItems, 2) = 1
    /\ last.ret[1].total_before = 8000
    /\ \E u \in Users : cart[u] = <<>> /\ calculate_total(cart[u], cartItems) = 0

\* C19: in every reachable state, for every product, the stock the catalog was
\* seeded with equals the current stock plus the units of that product recorded in
\* the lines of all orders of all users.
C19_StockConserved ==
    \A p \in Products : seed[p] = stock[p] + UnitsOrdered(OrderLines, p)

\* C20: with a single user and a single cart, in every reachable state every cart
\* line's quantity is <= the stock of its product, and no checkout has failed with
\* the not-enough-stock error.
C20_OneCartNeverShortOfStock ==
    /\ \A i \in 1..Len(cart[TheUser]) :
          cartItems[cart[TheUser][i]].quantity
            <= stock[cartItems[cart[TheUser][i]].product]
    /\ ~(last.op = "checkout" /\ last.err = NotEnoughStock)

\* the single user has just bought the whole catalog in one two-line order
C20_Witness ==
    /\ last.op = "checkout"
    /\ last.err = OK
    /\ Len(last.ret[1].items) = 2
    /\ \A p \in Products :
          /\ LineQty(last.ret[1].items, cartItems, p) = seed[p]
          /\ stock[p] = 0

====
